---------------------------- MODULE Spec2Model ----------------------------
(***************************************************************************)
(* State-machine model of KerrLabFinal (src/kerr_lab.py).                  *)
(*                                                                         *)
(* Python floats are modelled in fixed point: a float x is the integer     *)
(* x * SCALE, products and quotients are rounded towards minus infinity.   *)
(* Angles are in milliradians, lengths and masses in thousandths.          *)
(* A float that is "not a number" is a record with nan = TRUE.             *)
(*                                                                         *)
(* The event loop is single threaded: the timer callback (update), the     *)
(* key handler (on_key) and the slider callback (update_params) each run   *)
(* to completion, so each is one atomic action.                            *)
(***************************************************************************)
EXTENDS Integers, Sequences, FiniteSets, TLC

(***************************************************************************)
(* Bounds of the model.                                                    *)
(***************************************************************************)
\* particles modelled, out of n_particles
NParticles == 2
\* rows of the mesh modelled, out of the 25 samples of grid_phi
GridRows == 2
\* columns of the mesh modelled, out of the 15 samples of grid_r
GridCols == 2
\* unpaused frames the timer delivers
MaxTicks == 2
\* frames counted while paused (further ones are delivered, not counted)
MaxPausedTicks == 2

(***************************************************************************)
(* Program constants.                                                      *)
(***************************************************************************)
SCALE == 1000
TwoPi == 6283
M_init == 1000
a_init == 900
speed_mult == 150
drag_strength == 500
drag_power == 2
r_inner == 1500
r_outer == 6000
p_z_sigma == 40
grid_r_min == 1100
grid_r_max == 9000
grid_r_num == 15
grid_phi_num == 25
spin_min == 0
spin_max == 990
spin_step == 10
mass_min == 500
mass_max == 2000
mass_step == 100
N_PANELS == 4
Z_BASE == -7000

Particles == 1..NParticles
Rows == 0..(GridRows - 1)
Cols == 0..(GridCols - 1)
\* draws of the random number generator that are tried
Seeds == {1, 2}

(***************************************************************************)
(* Float arithmetic.                                                       *)
(***************************************************************************)
FMul(x, y) == (x * y) \div SCALE
FDiv(x, y) == (x * SCALE) \div y

RECURSIVE IsqrtIn(_, _, _)
IsqrtIn(n, lo, hi) ==
    IF lo >= hi THEN lo
    ELSE LET mid == (lo + hi + 1) \div 2
         IN  IF mid * mid <= n THEN IsqrtIn(n, mid, hi)
                               ELSE IsqrtIn(n, lo, mid - 1)

\* largest s with s*s <= n, for 0 <= n < 2^30
Isqrt(n) == IsqrtIn(n, 0, 32767)

\* np.sqrt of a float: a negative argument gives nan (and a warning);
\* it never raises ValueError.
np_sqrt(x) ==
    IF x < 0 THEN [raises |-> FALSE, nan |-> TRUE, v |-> 0]
             ELSE [raises |-> FALSE, nan |-> FALSE, v |-> Isqrt(x * SCALE)]

RECURSIVE FPow(_, _)
\* x ** k for an integral exponent k >= 1
FPow(x, k) == IF k <= 1 THEN x ELSE FMul(x, FPow(x, k - 1))

\* r ** (-1.5) = 1 / (r * sqrt(r)), r > 0
PowNeg15(r) == FDiv(SCALE, FMul(r, np_sqrt(r).v))

(***************************************************************************)
(* init_particles, init_grid                                               *)
(***************************************************************************)
\* np.random.uniform(r_inner, r_outer): the seed selects the draw
SampleRadius(seed, i) ==
    r_inner + (((seed - 1) * 2250 + (i - 1) * 4500) % (r_outer - r_inner + 1))
\* np.random.uniform(0, 2*pi)
SampleAzimuth(seed, i) == (seed * 3100 + (i - 1) * 3180) % TwoPi
\* np.random.normal(0, 0.04)
SampleHeight(seed, i) == ((seed * 37 + i * 53) % (2 * p_z_sigma + 1)) - p_z_sigma

\* np.linspace(1.1, 9, 15)[k]
grid_r(k) == grid_r_min + (k * (grid_r_max - grid_r_min)) \div (grid_r_num - 1)
\* np.linspace(0, 2*pi, 25)[j]
grid_phi(j) == (j * TwoPi) \div (grid_phi_num - 1)
\* np.meshgrid(grid_r, grid_phi): R[j][k] = grid_r[k], P[j][k] = grid_phi[j]
R == [j \in Rows |-> [k \in Cols |-> grid_r(k)]]
P_init == [j \in Rows |-> [k \in Cols |-> grid_phi(j)]]


(***************************************************************************)
(* setup_ui: the two sliders                                               *)
(***************************************************************************)
\* Slider(ax, label, valmin, valmax, valstep=step): the value the widget
\* takes when the pointer is dragged to raw: snapped to the step, then
\* held within [valmin, valmax].
SliderValue(raw, valmin, valmax, step) ==
    LET stepped == valmin + ((raw - valmin + step \div 2) \div step) * step
    IN  IF stepped <= valmin THEN valmin
        ELSE IF stepped >= valmax THEN valmax
        ELSE stepped

\* pointer positions tried on the spin slider and on the mass slider
SpinDrags == {-50, 904, 1500}
MassDrags == {-200, 1040}
\* values handed to Slider.set_val by a caller, which stores them as given
SpinSetVals == {1500}
MassSetVals == {250, 3000}

(***************************************************************************)
(* update_geometry                                                         *)
(***************************************************************************)
\* r_plus = M + sqrt(M^2 - a^2) inside try / except ValueError
HorizonRadius(Mv, av) ==
    LET s == np_sqrt(FMul(Mv, Mv) - FMul(av, av))
    IN  IF s.raises
        THEN [fallback |-> TRUE, nan |-> FALSE, v |-> Mv]
        ELSE [fallback |-> FALSE, nan |-> s.nan,
              v |-> IF s.nan THEN 0 ELSE Mv + s.v]

HorizonColor(newt) == IF newt THEN "gray" ELSE "black"
\* alpha in thousandths
HorizonAlpha(newt) == IF newt THEN 500 ELSE 950

\* the surface plot_surface is given: the sphere of radius r_plus and its style
update_geometry(Mv, av, newt) ==
    [r_plus |-> HorizonRadius(Mv, av),
     color  |-> HorizonColor(newt),
     alpha  |-> HorizonAlpha(newt)]

(***************************************************************************)
(* update_hud                                                              *)
(***************************************************************************)
\* f"{a:.2f}": hundredths, rounded
Fmt2(x) == (x + 5) \div 10
\* f"{M:.1f}": tenths, rounded
Fmt1(x) == (x + 50) \div 100

HudPanel(mode, newt) ==
    IF mode = 1 THEN <<"1. EVENT HORIZON GEOMETRY", "kerr formula", "schwarzschild">>
    ELSE IF mode = 2 THEN <<"2. TIME DILATION", "time stops", "redshift">>
    ELSE IF mode = 3 THEN
        IF newt THEN <<"3. FRAME DRAGGING (Lense-Thirring)", "[DISABLED IN NEWTONIAN MODE]">>
                ELSE <<"3. FRAME DRAGGING (Lense-Thirring)", "dphi formula", "corotate">>
    ELSE << >>

\* the text objects on screen after update_hud: the dashboard, then the panel
update_hud(Mv, av, newt, mode) ==
    [dash  |-> [mode_str |-> IF newt THEN "NEWTONIAN (CLASSIC)"
                                     ELSE "RELATIVISTIC (KERR)",
                spin     |-> Fmt2(av),
                mass     |-> Fmt1(Mv),
                color    |-> IF newt THEN "red" ELSE "cyan"],
     panel |-> HudPanel(mode, newt)]

(***************************************************************************)
(* update: the per-frame formulas                                          *)
(***************************************************************************)
\* omega = (1.5 * M) * (p_r ** (-1.5))
Omega(Mv, r) == FMul(FMul(1500, Mv), PowNeg15(r))

\* variant: the azimuth is wrapped into [0, 2*pi) after the step
ParticleStep_wrap(phi, Mv, r) == (phi + FMul(Omega(Mv, r), speed_mult)) % TwoPi

\* variant: the orbit runs backwards
ParticleStep_back(phi, Mv, r) == phi - FMul(Omega(Mv, r), speed_mult)

\* p_phi += omega * speed_mult
ParticleStep(phi, Mv, r) == phi + FMul(Omega(Mv, r), speed_mult)

\* drag_factor = (a * drag_strength) / (R ** drag_power)
DragFactor(av, r) == FDiv(FMul(av, drag_strength), FPow(r, drag_power))

\* variant: the twist is applied in Newtonian mode too
GridTwist_always(Pv, av, newt) ==
    [j \in Rows |-> [k \in Cols |-> Pv[j][k] + DragFactor(av, R[j][k])]]

\* variant: the twist is applied to the base mesh, not accumulated
GridTwist_rebase(Pv, av, newt) ==
    IF ~newt THEN [j \in Rows |-> [k \in Cols |-> P_init[j][k] + DragFactor(av, R[j][k])]]
             ELSE Pv

\* if not newtonian_mode: P += drag_factor
GridTwist(Pv, av, newt) ==
    IF ~newt THEN [j \in Rows |-> [k \in Cols |-> Pv[j][k] + DragFactor(av, R[j][k])]]
             ELSE Pv

\* variant: the Newtonian funnel scales with the mass as well
ZGrid_mass(Mv, newt) ==
    [j \in Rows |-> [k \in Cols |-> Z_BASE + FDiv(FMul(-3000, Mv), R[j][k])]]

\* Z_grid = -7 + (-3.0 * M / R)   or   -7 + (-1.0 / R)
ZGrid(Mv, newt) ==
    IF ~newt THEN [j \in Rows |-> [k \in Cols |-> Z_BASE + FDiv(FMul(-3000, Mv), R[j][k])]]
             ELSE [j \in Rows |-> [k \in Cols |-> Z_BASE + FDiv(-1000, R[j][k])]]

ColorGrid(newt) == IF ~newt THEN "#00ffff" ELSE "#444444"

\* variant: five panels, as the comment on info_mode lists them
NextInfoMode_five(mode) == (mode + 1) % (N_PANELS + 1)

\* info_mode = (info_mode + 1) % 4
NextInfoMode(mode) == (mode + 1) % N_PANELS

(***************************************************************************)
(* State                                                                   *)
(***************************************************************************)
VARIABLES
    paused, newtonian_mode, info_mode,  \* the three mode fields
    M, a,                               \* mass and spin
    s_spin, s_mass,                     \* the values of the two sliders
    p_r, p_phi, p_z,                    \* particles: radius, azimuth, height
    scat,                               \* the scatter plot's positions (polar)
    P,                                  \* mesh azimuths
    wframe,                             \* the wireframe drawn last, << >> if none
    horizon_surf,                       \* the horizon surface drawn last
    text_objects,                       \* the HUD texts drawn last
    \* history variables, read by no handler
    ticks,                              \* unpaused frames so far
    watch,                              \* which history below is recorded
    P_frozen, phase, newt_ticks,        \* "toggle": mesh at the last switch to Newtonian
    at_pause, paused_ticks, paused_edits, \* "pause": outputs when pause began
    phi_base, n_since,                  \* "mass": azimuths at the last mass change
    P_base, rel_since,                  \* "spin": mesh at the last spin change
    e_start, e_run                      \* "cycle": panel before a run of 'e' presses

prog == <<paused, newtonian_mode, info_mode, M, a, s_spin, s_mass, p_r, p_phi,
          p_z, scat, P, wframe, horizon_surf, text_objects>>
hToggle == <<P_frozen, phase, newt_ticks>>
hPause == <<at_pause, paused_ticks, paused_edits>>
hMass == <<phi_base, n_since>>
hSpin == <<P_base, rel_since>>
hCycle == <<e_start, e_run>>
hist == <<ticks, watch, hToggle, hPause, hMass, hSpin, hCycle>>
vars == <<prog, hist>>

Watches == {"none", "toggle", "pause", "mass", "spin", "cycle"}

\* the positions the scatter plot shows, kept as (radius, azimuth, height)
Offsets3d(r, phi, z) == [r |-> r, phi |-> phi, z |-> z]

\* what the renderer shows of the particles and of the mesh
Outputs == [p_phi |-> p_phi, P |-> P, wframe |-> wframe, scat |-> scat]

(***************************************************************************)
(* __init__                                                                *)
(***************************************************************************)
InitProg ==
    /\ paused = FALSE
    /\ newtonian_mode = FALSE
    /\ info_mode = 0
    /\ M = M_init
    /\ a = a_init
    /\ \E seed \in Seeds :
         /\ p_r = [i \in Particles |-> SampleRadius(seed, i)]
         /\ p_phi = [i \in Particles |-> SampleAzimuth(seed, i)]
         /\ p_z = [i \in Particles |-> SampleHeight(seed, i)]
    /\ scat = Offsets3d(p_r, p_phi, p_z)
    /\ P = P_init
    /\ wframe = << >>
    /\ s_spin = SliderValue(a_init, spin_min, spin_max, spin_step)
    /\ s_mass = SliderValue(M_init, mass_min, mass_max, mass_step)
    /\ horizon_surf = update_geometry(M, a, newtonian_mode)
    /\ text_objects = update_hud(M, a, newtonian_mode, info_mode)

InitHist ==
    /\ ticks = 0
    /\ P_frozen = P
    /\ phase = "rel"
    /\ newt_ticks = 0
    /\ at_pause = Outputs
    /\ paused_ticks = 0
    /\ paused_edits = 0
    /\ phi_base = p_phi
    /\ n_since = 0
    /\ P_base = P
    /\ rel_since = 0
    /\ e_start = 0
    /\ e_run = 0

Init == InitProg /\ InitHist /\ watch \in Watches

(***************************************************************************)
(* History kept beside each handler                                        *)
(***************************************************************************)
\* a frame: paused or not before it
HistUpdate ==
    /\ ticks' = IF paused THEN ticks ELSE ticks + 1
    /\ watch' = watch
    /\ IF watch = "toggle" /\ ~paused
       THEN /\ newt_ticks' = IF newtonian_mode THEN newt_ticks + 1 ELSE newt_ticks
            /\ phase' = IF newtonian_mode THEN phase ELSE "rel"
            /\ P_frozen' = P_frozen
       ELSE UNCHANGED hToggle
    /\ IF watch = "pause" /\ paused /\ paused_ticks < MaxPausedTicks
       THEN paused_ticks' = paused_ticks + 1 /\ UNCHANGED <<at_pause, paused_edits>>
       ELSE UNCHANGED hPause
    /\ IF watch = "mass" /\ ~paused
       THEN n_since' = n_since + 1 /\ phi_base' = phi_base
       ELSE UNCHANGED hMass
    /\ IF watch = "spin" /\ ~paused /\ ~newtonian_mode
       THEN rel_since' = rel_since + 1 /\ P_base' = P_base
       ELSE UNCHANGED hSpin
    /\ e_run' = 0
    /\ e_start' = e_start

HistSpace ==
    /\ UNCHANGED <<ticks, watch, hToggle, hMass, hSpin>>
    /\ IF watch = "pause"
       THEN at_pause' = Outputs /\ paused_ticks' = 0 /\ paused_edits' = 0
       ELSE UNCHANGED hPause
    /\ e_run' = 0
    /\ e_start' = e_start

HistE ==
    /\ UNCHANGED <<ticks, watch, hToggle, hPause, hMass, hSpin>>
    /\ IF watch = "cycle"
       THEN IF e_run \in 1..(N_PANELS - 1)
            THEN e_run' = e_run + 1 /\ e_start' = e_start
            ELSE e_run' = 1 /\ e_start' = info_mode
       ELSE UNCHANGED hCycle

\* a change of mode or of a parameter made while paused is counted once
HistEdit ==
    IF watch = "pause" /\ paused
    THEN paused_edits' = 1 /\ UNCHANGED <<at_pause, paused_ticks>>
    ELSE UNCHANGED hPause

HistN ==
    /\ UNCHANGED <<ticks, watch, hMass, hSpin>>
    /\ IF watch = "toggle"
       THEN IF ~newtonian_mode
            THEN P_frozen' = P /\ phase' = "newt" /\ newt_ticks' = 0
            ELSE P_frozen' = P_frozen /\ phase' = "back" /\ newt_ticks' = newt_ticks
       ELSE UNCHANGED hToggle
    /\ HistEdit
    /\ e_run' = 0
    /\ e_start' = e_start

HistOther ==
    /\ UNCHANGED <<ticks, watch, hToggle, hPause, hMass, hSpin>>
    /\ e_run' = 0
    /\ e_start' = e_start

HistParams(spinVal, massVal) ==
    /\ UNCHANGED <<ticks, watch, hToggle>>
    /\ HistEdit
    /\ IF watch = "mass" /\ massVal # M
       THEN phi_base' = p_phi /\ n_since' = 0
       ELSE UNCHANGED hMass
    /\ IF watch = "spin" /\ spinVal # a
       THEN P_base' = P /\ rel_since' = 0
       ELSE UNCHANGED hSpin
    /\ e_run' = 0
    /\ e_start' = e_start

(***************************************************************************)
(* update(frame): one frame of the animation                               *)
(***************************************************************************)
\* variant: the frame is computed although the animation is paused
update_ignoring_pause ==
    /\ ticks < MaxTicks
    /\ p_phi' = [i \in Particles |-> ParticleStep(p_phi[i], M, p_r[i])]
    /\ scat' = Offsets3d(p_r, p_phi', p_z)
    /\ P' = GridTwist(P, a, newtonian_mode)
    /\ wframe' = <<[P |-> P',
                    Z |-> ZGrid(M, newtonian_mode),
                    color |-> ColorGrid(newtonian_mode)]>>
    /\ UNCHANGED <<paused, newtonian_mode, info_mode, M, a, s_spin,
                   s_mass, p_r, p_z, horizon_surf, text_objects>>
    /\ HistUpdate

update ==
    /\ paused \/ ticks < MaxTicks
    /\ IF paused
       THEN UNCHANGED prog
       ELSE /\ p_phi' = [i \in Particles |-> ParticleStep(p_phi[i], M, p_r[i])]
            /\ scat' = Offsets3d(p_r, p_phi', p_z)
            /\ P' = GridTwist(P, a, newtonian_mode)
            /\ wframe' = <<[P |-> P',
                            Z |-> ZGrid(M, newtonian_mode),
                            color |-> ColorGrid(newtonian_mode)]>>
            /\ UNCHANGED <<paused, newtonian_mode, info_mode, M, a, s_spin,
                           s_mass, p_r, p_z, horizon_surf, text_objects>>
    /\ HistUpdate

(***************************************************************************)
(* on_key(event)                                                           *)
(***************************************************************************)
\* event.key == ' '
on_key_space ==
    /\ paused' = ~paused
    /\ UNCHANGED <<newtonian_mode, info_mode, M, a, s_spin, s_mass, p_r, p_phi,
                   p_z, scat, P, wframe, horizon_surf, text_objects>>
    /\ HistSpace

\* event.key == 'e' or 'E'
on_key_e ==
    /\ info_mode' = NextInfoMode(info_mode)
    /\ text_objects' = update_hud(M, a, newtonian_mode, info_mode')
    /\ UNCHANGED <<paused, newtonian_mode, M, a, s_spin, s_mass, p_r, p_phi,
                   p_z, scat, P, wframe, horizon_surf>>
    /\ HistE

\* variant: the mode is toggled and the HUD redrawn, the horizon is not
on_key_n_stale ==
    /\ newtonian_mode' = ~newtonian_mode
    /\ text_objects' = update_hud(M, a, newtonian_mode', info_mode)
    /\ UNCHANGED <<paused, info_mode, M, a, s_spin, s_mass, p_r, p_phi, p_z,
                   scat, P, wframe, horizon_surf>>
    /\ HistN

\* event.key == 'n' or 'N'
on_key_n ==
    /\ newtonian_mode' = ~newtonian_mode
    /\ horizon_surf' = update_geometry(M, a, newtonian_mode')
    /\ text_objects' = update_hud(M, a, newtonian_mode', info_mode)
    /\ UNCHANGED <<paused, info_mode, M, a, s_spin, s_mass, p_r, p_phi, p_z,
                   scat, P, wframe>>
    /\ HistN

\* any other key: no branch of on_key is taken
on_key_other ==
    /\ UNCHANGED prog
    /\ HistOther

(***************************************************************************)
(* update_params(val): the callback of both sliders                        *)
(***************************************************************************)
\* the handler, run once the sliders hold spinVal and massVal
update_params(spinVal, massVal) ==
    /\ a' = spinVal
    /\ M' = massVal
    /\ horizon_surf' = update_geometry(M', a', newtonian_mode)
    /\ text_objects' = update_hud(M', a', newtonian_mode, info_mode)
    /\ UNCHANGED <<paused, newtonian_mode, info_mode, p_r, p_phi, p_z, scat,
                   P, wframe>>
    /\ HistParams(spinVal, massVal)

\* the spin slider is dragged: s_spin.on_changed(update_params)
slider_spin ==
    \E raw \in SpinDrags :
        /\ s_spin' = SliderValue(raw, spin_min, spin_max, spin_step)
        /\ s_mass' = s_mass
        /\ update_params(s_spin', s_mass')

\* the mass slider is dragged: s_mass.on_changed(update_params)
slider_mass ==
    \E raw \in MassDrags :
        /\ s_mass' = SliderValue(raw, mass_min, mass_max, mass_step)
        /\ s_spin' = s_spin
        /\ update_params(s_spin', s_mass')

\* s_spin.set_val(v) by a caller: the slider stores v as given and notifies
set_val_spin ==
    \E v \in SpinSetVals :
        /\ s_spin' = v
        /\ s_mass' = s_mass
        /\ update_params(s_spin', s_mass')

\* s_mass.set_val(v) by a caller
set_val_mass ==
    \E v \in MassSetVals :
        /\ s_mass' = v
        /\ s_spin' = s_spin
        /\ update_params(s_spin', s_mass')

(***************************************************************************)
(* Specifications                                                          *)
(***************************************************************************)
\* the program driven through its window: timer, keyboard, slider drags
Next ==
    \/ update
    \/ on_key_space
    \/ on_key_e
    \/ on_key_n
    \/ on_key_other
    \/ slider_spin
    \/ slider_mass

Spec == Init /\ [][Next]_vars

\* the same, with callers that also set the sliders' values directly
NextOpen ==
    \/ Next
    \/ set_val_spin
    \/ set_val_mass

\* no history is recorded
InitOpen == InitProg /\ InitHist /\ watch = "none"

SpecOpen == InitOpen /\ [][NextOpen]_vars

(***************************************************************************)
(* Properties                                                              *)
(***************************************************************************)
\* the step of a particle's azimuth per frame: 1.5 * M * r^(-1.5) * 0.15
StepOf(Mv, r) == (((((1500 * Mv) \div SCALE) * PowNeg15(r)) \div SCALE) * speed_mult) \div SCALE
\* the twist of a mesh point per frame: spin * 0.5 / r^2
TwistOf(av, r) == (((av * drag_strength) \div SCALE) * SCALE) \div ((r * r) \div SCALE)
\* the funnel: -7 - 3*M/r, or -7 - 1/r in Newtonian mode
HeightOf(Mv, r, newt) ==
    IF newt THEN Z_BASE + ((-1000 * SCALE) \div r)
            ELSE Z_BASE + ((((-3000 * Mv) \div SCALE) * SCALE) \div r)

\* C1: from the switch to Newtonian mode on, through every frame in that
\* mode and the switch back, until the next relativistic frame, the mesh
\* azimuths are those of the moment of the switch.
C1_FrozenTwist ==
    (watch = "toggle" /\ phase \in {"newt", "back"}) => P = P_frozen

\* relativistic frames twisted the mesh, then Newtonian frames ran, and the
\* mode was switched back
C1_Witness ==
    /\ watch = "toggle"
    /\ phase = "back"
    /\ ~newtonian_mode
    /\ newt_ticks >= 1
    /\ P # P_init
    /\ P = P_frozen

\* C2: while paused, particle azimuths, mesh azimuths, the wireframe drawn
\* last and the scatter positions are those of the moment pause began,
\* whatever frames, parameter changes and mode changes came since.
C2_PausedNoOp ==
    (watch = "pause" /\ paused) => Outputs = at_pause

\* paused, after frames ran unpaused, with frames delivered and a parameter
\* or the mode changed during the pause
C2_Witness ==
    /\ watch = "pause"
    /\ paused
    /\ ticks >= 1
    /\ paused_ticks >= 2
    /\ paused_edits = 1
    /\ M # M_init
    /\ Outputs = at_pause

\* C3: the horizon drawn last has radius mass (and the fallback taken) when
\* mass^2 < spin^2, and radius mass + sqrt(mass^2 - spin^2) with no fallback
\* otherwise.
C3_HorizonFallback ==
    LET disc == (M * M) \div SCALE - (a * a) \div SCALE
        rp == horizon_surf.r_plus
    IN  /\ disc < 0 => (rp.fallback /\ ~rp.nan /\ rp.v = M)
        /\ disc >= 0 => /\ ~rp.fallback
                        /\ ~rp.nan
                        /\ rp.v >= M
                        /\ (rp.v - M) * (rp.v - M) <= disc * SCALE
                        /\ (rp.v - M + 1) * (rp.v - M + 1) > disc * SCALE

\* C4: the horizon and the HUD drawn last are those of the current mass,
\* spin, mode and panel.
C4_Fresh ==
    /\ horizon_surf.r_plus = HorizonRadius(M, a)
    /\ horizon_surf.color = (IF newtonian_mode THEN "gray" ELSE "black")
    /\ horizon_surf.alpha = (IF newtonian_mode THEN 500 ELSE 950)
    /\ text_objects.dash.mode_str =
          (IF newtonian_mode THEN "NEWTONIAN (CLASSIC)" ELSE "RELATIVISTIC (KERR)")
    /\ text_objects.dash.color = (IF newtonian_mode THEN "red" ELSE "cyan")
    /\ text_objects.dash.spin = (a + 5) \div 10
    /\ text_objects.dash.mass = (M + 50) \div 100
    /\ text_objects.panel = HudPanel(info_mode, newtonian_mode)

\* mass, spin and mode were all changed, the last of them while paused
C4_Witness ==
    /\ M = mass_min
    /\ a = spin_max
    /\ newtonian_mode
    /\ paused
    /\ info_mode = 3
    /\ ticks >= 1
    /\ horizon_surf.color = "gray"
    /\ horizon_surf.r_plus.nan
    /\ text_objects.dash.mass = 5
    /\ text_objects.dash.spin = 99

\* C5: no step changes a particle's radius or height; a computed frame
\* strictly increases every azimuth, and nothing else changes an azimuth.
C5_CircularOrbits ==
    [][ /\ p_r' = p_r
        /\ p_z' = p_z
        /\ \A i \in Particles : p_r[i] >= r_inner /\ p_r[i] <= r_outer
        /\ ticks' # ticks => \A i \in Particles : p_phi'[i] > p_phi[i]
        /\ ticks' = ticks => p_phi' = p_phi ]_vars

\* two frames were computed, under different masses
C5_Witness ==
    /\ ticks >= 2
    /\ watch = "mass"
    /\ n_since = 1
    /\ \A i \in Particles : p_phi[i] > phi_base[i]
    /\ \E seed \in Seeds : \A i \in Particles :
          /\ p_r[i] = SampleRadius(seed, i)
          /\ phi_base[i] > SampleAzimuth(seed, i)

\* C6: n frames computed since the mass last changed have moved every
\* azimuth by n times the step of the current mass, and by nothing else.
C6_ClosedForm ==
    watch = "mass" =>
        \A i \in Particles : p_phi[i] = phi_base[i] + n_since * StepOf(M, p_r[i])

\* two frames at a mass other than the initial one; an azimuth beyond 2*pi
C6_Witness ==
    /\ watch = "mass"
    /\ n_since >= 2
    /\ M # M_init
    /\ \E i \in Particles : p_phi[i] >= TwoPi
    /\ \A i \in Particles : p_phi[i] = phi_base[i] + n_since * StepOf(M, p_r[i])

\* C7: the heights a computed frame draws are -7 - 3*M/r, or -7 - 1/r in
\* Newtonian mode, of the mass and mode of that frame, and nothing else.
C7_PureHeight ==
    [][ ticks' # ticks =>
          /\ Len(wframe') = 1
          /\ wframe'[1].Z = [j \in Rows |-> [k \in Cols |->
                                HeightOf(M, grid_r(k), newtonian_mode)]]
          /\ wframe'[1].color = (IF newtonian_mode THEN "#444444" ELSE "#00ffff") ]_vars

\* two frames drawn, the mesh twisted meanwhile, the last one Newtonian at a
\* mass other than 1
C7_Witness ==
    /\ ticks >= 2
    /\ P # P_init
    /\ newtonian_mode
    /\ M # M_init
    /\ Len(wframe) = 1
    /\ wframe[1].color = "#444444"
    /\ wframe[1].Z = [j \in Rows |-> [k \in Cols |-> Z_BASE + ((-1000 * SCALE) \div grid_r(k))]]

\* C8: a computed relativistic frame adds spin * 0.5 / r^2 to every mesh
\* azimuth and no other step changes one, so none ever decreases, and n
\* such frames since the spin last changed have added n times that twist.
C8_TwistAccumulates ==
    [][ /\ (ticks' # ticks /\ ~newtonian_mode) =>
              P' = [j \in Rows |-> [k \in Cols |-> P[j][k] + TwistOf(a, grid_r(k))]]
        /\ (ticks' = ticks \/ newtonian_mode) => P' = P
        /\ \A j \in Rows : \A k \in Cols : P'[j][k] >= P[j][k]
        /\ watch' = "spin" =>
              P' = [j \in Rows |-> [k \in Cols |->
                       P_base[j][k]' + rel_since' * TwistOf(a', grid_r(k))]] ]_vars

\* two relativistic frames at a spin set by the slider
C8_Witness ==
    /\ watch = "spin"
    /\ rel_since >= 2
    /\ a = spin_max
    /\ ticks >= 2
    /\ \A j \in Rows : \A k \in Cols : P[j][k] > P_base[j][k]

C10_Clamped ==
    /\ M >= mass_min /\ M <= mass_max
    /\ a >= spin_min /\ a <= spin_max

=============================================================================
